---- MODULE Spec2Model ----
(***************************************************************************)
(* Model of MarkdownService (src/modules/markdown/markdown.service.ts):    *)
(* archive packaging, YAML-header composition, ingest date normalisation,  *)
(* category resolve-or-create on import, and the custom HTML lowering of    *)
(* image and spoiler nodes.                                                 *)
(*                                                                          *)
(* Text is modelled as a sequence of one-character strings, so that         *)
(* String.replace, escaping and percent-encoding are computed character by  *)
(* character.                                                               *)
(***************************************************************************)
EXTENDS Integers, Sequences, FiniteSets, TLC

VARIABLES
    \* generateArchive
    documents,      \* the documents argument
    options,        \* the options argument: [slug |-> BOOLEAN]
    zip,            \* JSZip.files: the set of entries [name, content]
    di,             \* number of documents the for-of loop has consumed
    \* the clock behind `new Date()`
    now,
    \* insertNotesToDb
    noteData,       \* the data argument
    noteModels,     \* the local `models` array
    notePc,         \* "loop" | "done"
    noteStore,      \* the notes collection
    \* insertPostsToDb
    postData,           \* the data argument (categories.shift() mutates it)
    postPc,             \* "start" | "loop" | "done" | "threw"
    count,              \* the local counter of unnamed posts
    categoryNameAndId,  \* the local list of known categories
    defaultCategory,    \* _id of the target wrapped by the Proxy, 0 before it is read
    postModels,         \* the local `models` array
    categoryStore,      \* the categories collection
    postStore,          \* the posts collection
    \* markdownBuilder and the ingest of what it produced
    property,       \* the property argument: [meta, text]
    built,          \* the text markdownBuilder returned, by its parts
    ingested,       \* the metadata recovered from the header of `built`
    builderPc,      \* "input" | "built" | "ingested"
    \* render
    node,           \* the syntax tree node parsed from the text
    html,           \* the element tree the lowering returned, <<>> before
    renderPc        \* "parsed" | "rendered"

archiveVars == <<documents, options, zip, di>>
noteVars == <<noteData, noteModels, notePc, noteStore>>
postVars == <<postData, postPc, count, categoryNameAndId, defaultCategory,
              postModels, categoryStore, postStore>>
builderVars == <<property, built, ingested, builderPc>>
renderVars == <<node, html, renderPc>>
vars == <<archiveVars, now, noteVars, postVars, builderVars, renderVars>>

----------------------------------------------------------------------------
(* Bounds *)
MaxNameLen == 2
MaxDocs == 2
MaxClock == 2
MaxItems == 2
MaxPosts == 2
MaxUrlLen == 3
MaxAltLen == 2
MaxDepth == 1

----------------------------------------------------------------------------
(* Text helpers *)

\* all sequences over S of length lo..hi
SeqsOf(S, lo, hi) == UNION {[1..n -> S] : n \in lo..hi}

\* String.prototype.replace(/c/g, r) for a one-character pattern c
RECURSIVE ReplaceAll(_, _, _)
ReplaceAll(s, c, r) ==
    IF s = <<>> THEN <<>>
    ELSE (IF Head(s) = c THEN r ELSE <<Head(s)>>) \o ReplaceAll(Tail(s), c, r)

----------------------------------------------------------------------------
(* Each specification below runs one operation of the service; the state   *)
(* of the operations it does not run stays as given here.                  *)

ArchiveIdle ==
    /\ documents = <<>>
    /\ options = [slug |-> FALSE]
    /\ zip = {}
    /\ di = 0

NotesIdle ==
    /\ noteData = <<>>
    /\ noteModels = <<>>
    /\ notePc = "done"
    /\ noteStore = <<>>

PostsIdle ==
    /\ postData = <<>>
    /\ postPc = "done"
    /\ count = 1
    /\ categoryNameAndId = <<>>
    /\ defaultCategory = 0
    /\ postModels = <<>>
    /\ categoryStore = <<>>
    /\ postStore = <<>>

NoText == [hasYaml |-> FALSE, header |-> <<>>, yaml |-> <<>>, heading |-> <<>>,
           body |-> <<>>]

BuilderIdle ==
    /\ property = [meta |-> <<>>, text |-> <<>>]
    /\ built = NoText
    /\ ingested = <<>>
    /\ builderPc = "ingested"

RenderIdle ==
    /\ node = <<>>
    /\ html = <<>>
    /\ renderPc = "rendered"

----------------------------------------------------------------------------
(* Values of metadata fields: a Date (v = its time in ms), a string        *)
(* (v identifies the string, 0 being the empty string) or undefined.       *)

Undefined == [kind |-> "undefined", v |-> 0]
DateV(t) == [kind |-> "date", v |-> t]
StrV(n) == [kind |-> "string", v |-> n]
InvalidDate == [kind |-> "invalidDate", v |-> 0]

\* JavaScript truthiness: objects are truthy, '' and undefined are falsy
Truthy(val) ==
    \/ val.kind = "date"
    \/ val.kind = "invalidDate"
    \/ (val.kind = "string" /\ val.v # 0)

\* new Date(value): a Date is copied; the modelled strings are no date text
NewDate(val) == IF val.kind = "date" THEN DateV(val.v) ELSE InvalidDate

\* the readings two successive `new Date()` calls can return
ClockReadings == {r \in (0..MaxClock) \X (0..MaxClock) : now <= r[1] /\ r[1] <= r[2]}

----------------------------------------------------------------------------
(* genDate, lines 137-154.  t1 and t2 are the readings of the first and    *)
(* the second `new Date()` the evaluation reaches.                         *)

genDate(item, t1, t2) ==
    IF ~item.hasMeta
    THEN [created |-> DateV(t1), modified |-> DateV(t2)]
    ELSE LET date == item.meta.date
             updated == item.meta.updated
         IN  [created |-> IF Truthy(date) THEN NewDate(date) ELSE DateV(t1),
              modified |-> IF Truthy(updated) THEN NewDate(updated)
                           ELSE IF Truthy(date) THEN NewDate(date)
                           ELSE DateV(t2)]

----------------------------------------------------------------------------
(* insertNotesToDb, lines 116-135 *)

SuppliedDateSet == {Undefined, DateV(0), DateV(1)}
NoMeta == [title |-> "", date |-> Undefined, updated |-> Undefined]
NoteItemSet ==
    [hasMeta : {TRUE}, text : {"text1"},
     meta : [title : {"t"}, date : SuppliedDateSet, updated : SuppliedDateSet]]
    \cup [hasMeta : {FALSE}, text : {"text1"}, meta : {NoMeta}]

NotesInit ==
    /\ noteData \in SeqsOf(NoteItemSet, 0, MaxItems)
    /\ noteModels = <<>>
    /\ notePc = "loop"
    /\ noteStore = <<>>
    /\ now \in 0..MaxClock
    /\ ArchiveIdle
    /\ PostsIdle
    /\ BuilderIdle
    /\ RenderIdle

\* one iteration of `for await (const item of data)`
InsertNotesStep ==
    /\ notePc = "loop"
    /\ Len(noteModels) < Len(noteData)
    /\ LET item == noteData[Len(noteModels) + 1]
       IN  \E r \in ClockReadings :
             /\ noteModels' = Append(noteModels,
                    [title |-> IF item.hasMeta THEN item.meta.title ELSE "unnamed",
                     text |-> item.text,
                     created |-> genDate(item, r[1], r[2]).created,
                     modified |-> genDate(item, r[1], r[2]).modified])
             /\ now' = r[2]
    /\ UNCHANGED <<noteData, notePc, noteStore, archiveVars, postVars, builderVars, renderVars>>

\* return await this.noteModel.create(models)
InsertNotesCreate ==
    /\ notePc = "loop"
    /\ Len(noteModels) = Len(noteData)
    /\ noteStore' = noteStore \o noteModels
    /\ notePc' = "done"
    /\ UNCHANGED <<noteData, noteModels, now, archiveVars, postVars, builderVars, renderVars>>

NotesNext == InsertNotesStep \/ InsertNotesCreate
SpecNotes == NotesInit /\ [][NotesNext]_vars

\* C5: every normalised item has a created and a modified Date; created is
\* the supplied date, or a reading of the clock when none is supplied; and
\* when no update time is supplied, modified equals created.
C5_GenDateNormalized ==
    \A k \in 1..Len(noteModels) :
        LET item == noteData[k]
            m == noteModels[k]
            dateSupplied == item.hasMeta /\ item.meta.date # Undefined
            updatedSupplied == item.hasMeta /\ item.meta.updated # Undefined
        IN  /\ m.created.kind = "date"
            /\ m.modified.kind = "date"
            /\ dateSupplied => m.created = item.meta.date
            /\ ~dateSupplied => m.created.v <= now
            /\ ~updatedSupplied => m.modified = m.created

----------------------------------------------------------------------------
(* insertPostsToDb, lines 37-115.  A category _id is the position of the   *)
(* category in the collection; 0 stands for undefined.                     *)

CategoryNameSet == {"tech", "life"}
\* a categories list; '' is a name the caller may send, <<>> also stands for
\* an absent list (categories?.shift() is undefined for both)
CategoriesSet == {<<>>, <<"">>, <<"tech">>, <<"life">>, <<"tech", "life">>}
PostNoMeta == [title |-> "", slug |-> "", categories |-> <<>>,
               date |-> Undefined, updated |-> Undefined]
PostItemSet ==
    [hasMeta : {TRUE}, text : {"text1"},
     meta : [title : {"t"}, slug : {"", "s"}, categories : CategoriesSet,
             date : {DateV(0)}, updated : {Undefined}]]
    \cup [hasMeta : {FALSE}, text : {"text1"}, meta : {PostNoMeta}]

NewCategory(name, id) ==
    [name |-> name, slug |-> name, type |-> 0, _id |-> id, count |-> 0]

\* the collection as it can be before the call: distinct names, in any order
InitialCategoryStores ==
    {<<>>}
    \cup {<<NewCategory(n, 1)>> : n \in CategoryNameSet}
    \cup {<<NewCategory(p[1], 1), NewCategory(p[2], 2)>> :
             p \in {q \in CategoryNameSet \X CategoryNameSet : q[1] # q[2]}}

\* updateOne({ _id }, { $inc: { count: 1 } })
IncCount(store, id) ==
    [i \in DOMAIN store |->
        IF store[i]._id = id THEN [store[i] EXCEPT !.count = @ + 1] ELSE store[i]]

\* categoryNameAndId.find((c) => name === c.name): the first match, 0 if none
FindCategory(list, name) ==
    IF \E i \in DOMAIN list : list[i].name = name
    THEN CHOOSE i \in DOMAIN list :
            /\ list[i].name = name
            /\ \A j \in DOMAIN list : list[j].name = name => i <= j
    ELSE 0

\* mutation: a created category is not pushed onto categoryNameAndId
insertOrCreateCategoryNoPush(name, list, store) ==
    IF name = ""
    THEN [id |-> 0, list |-> list, store |-> store]
    ELSE IF FindCategory(list, name) = 0
    THEN [id |-> Len(store) + 1,
          list |-> list,
          store |-> Append(store, NewCategory(name, Len(store) + 1))]
    ELSE [id |-> list[FindCategory(list, name)]._id,
          list |-> list,
          store |-> IncCount(store, list[FindCategory(list, name)]._id)]

\* insertOrCreateCategory, lines 45-77: the _id of the returned category (0
\* for undefined), the list and the collection afterwards
insertOrCreateCategory(name, list, store) ==
    IF name = ""
    THEN [id |-> 0, list |-> list, store |-> store]
    ELSE IF FindCategory(list, name) = 0
    THEN [id |-> Len(store) + 1,
          list |-> Append(list, [name |-> name, _id |-> Len(store) + 1]),
          store |-> Append(store, NewCategory(name, Len(store) + 1))]
    ELSE [id |-> list[FindCategory(list, name)]._id,
          list |-> list,
          store |-> IncCount(store, list[FindCategory(list, name)]._id)]

\* the get trap of the Proxy, lines 81-91: it builds
\* target.updateOne({ $inc: { count: 1 } }) and neither awaits nor executes
\* it, so whether the increment reaches the collection is left open
DefaultCategoryGet(store, executed) ==
    IF executed THEN IncCount(store, defaultCategory) ELSE store

PostsInit ==
    /\ postData \in SeqsOf(PostItemSet, 0, MaxPosts)
    /\ postPc = "start"
    /\ count = 1
    /\ categoryNameAndId = <<>>
    /\ defaultCategory = 0
    /\ postModels = <<>>
    /\ categoryStore \in InitialCategoryStores
    /\ postStore = <<>>
    /\ now = 0
    /\ ArchiveIdle
    /\ NotesIdle
    /\ BuilderIdle
    /\ RenderIdle

\* lines 38-91: load the known categories and wrap the first one; with an
\* empty collection findOne() is null and `new Proxy(null, ...)` throws
InsertPostsStart ==
    /\ postPc = "start"
    /\ categoryNameAndId' =
          [i \in DOMAIN categoryStore |->
              [name |-> categoryStore[i].name, _id |-> categoryStore[i]._id]]
    /\ IF categoryStore = <<>>
       THEN postPc' = "threw" /\ defaultCategory' = 0
       ELSE postPc' = "loop" /\ defaultCategory' = categoryStore[1]._id
    /\ UNCHANGED <<postData, count, postModels, categoryStore, postStore,
                   now, archiveVars, noteVars, builderVars, renderVars>>

\* lines 93-100: an item without meta
InsertPostsStepNoMeta ==
    /\ postPc = "loop"
    /\ Len(postModels) < Len(postData)
    /\ LET item == postData[Len(postModels) + 1]
       IN  /\ ~item.hasMeta
           /\ \E t0 \in now..MaxClock, executed \in BOOLEAN :
               \E t1 \in t0..MaxClock : \E t2 \in t1..MaxClock :
                 /\ postModels' = Append(postModels,
                        [title |-> <<"unnamed", count>>,
                         slug |-> <<"time", t0>>,
                         text |-> item.text,
                         created |-> genDate(item, t1, t2).created,
                         modified |-> genDate(item, t1, t2).modified,
                         categoryId |-> defaultCategory])
                 /\ categoryStore' = DefaultCategoryGet(categoryStore, executed)
                 /\ now' = t2
    /\ count' = count + 1
    /\ UNCHANGED <<postData, postPc, categoryNameAndId, defaultCategory,
                   postStore, archiveVars, noteVars, builderVars, renderVars>>

\* lines 101-112: an item with meta
InsertPostsStepMeta ==
    /\ postPc = "loop"
    /\ Len(postModels) < Len(postData)
    /\ LET k == Len(postModels) + 1
           item == postData[k]
           categories == item.meta.categories
           name == IF categories = <<>> THEN "" ELSE Head(categories)
           category == insertOrCreateCategory(name, categoryNameAndId, categoryStore)
       IN  /\ item.hasMeta
           /\ postData' = [postData EXCEPT ![k].meta.categories =
                              IF categories = <<>> THEN <<>> ELSE Tail(categories)]
           /\ categoryNameAndId' = category.list
           /\ \E r \in ClockReadings, executed \in BOOLEAN :
                 /\ postModels' = Append(postModels,
                        [title |-> <<item.meta.title, 0>>,
                         slug |-> <<IF item.meta.slug # "" THEN item.meta.slug
                                    ELSE item.meta.title, 0>>,
                         text |-> item.text,
                         created |-> genDate(item, r[1], r[2]).created,
                         modified |-> genDate(item, r[1], r[2]).modified,
                         categoryId |-> IF category.id # 0 THEN category.id
                                        ELSE defaultCategory])
                 /\ categoryStore' =
                       IF category.id # 0 THEN category.store
                       ELSE DefaultCategoryGet(category.store, executed)
                 /\ now' = r[2]
    /\ UNCHANGED <<postPc, count, defaultCategory, postStore, archiveVars, noteVars, builderVars, renderVars>>

\* line 114: return await this.postModel.insertMany(models)
InsertPostsInsertMany ==
    /\ postPc = "loop"
    /\ Len(postModels) = Len(postData)
    /\ postStore' = postStore \o postModels
    /\ postPc' = "done"
    /\ UNCHANGED <<postData, count, categoryNameAndId, defaultCategory,
                   postModels, categoryStore, now, archiveVars, noteVars, builderVars, renderVars>>

PostsNext ==
    \/ InsertPostsStart
    \/ InsertPostsStepNoMeta
    \/ InsertPostsStepMeta
    \/ InsertPostsInsertMany
SpecPosts == PostsInit /\ [][PostsNext]_vars

\* the name the loop iteration about to run hands to insertOrCreateCategory
ResolvedName ==
    LET item == postData[Len(postModels) + 1]
    IN  IF item.hasMeta /\ item.meta.categories # <<>>
        THEN Head(item.meta.categories) ELSE ""

\* a loop iteration that resolves a (non-empty) category name
ResolveStep ==
    /\ postPc = "loop"
    /\ Len(postModels) < Len(postData)
    /\ Len(postModels') = Len(postModels) + 1
    /\ ResolvedName # ""

\* C10: during one call, resolving a name the collection already holds
\* returns that category's _id, raises its count by exactly one and
\* creates nothing; resolving a name it does not hold creates exactly one
\* category of that name; and the collection never holds two categories of
\* the same name.
C10_ResolveOrCreate ==
    /\ [](\A i, j \in DOMAIN categoryStore :
            categoryStore[i].name = categoryStore[j].name => i = j)
    /\ [][ResolveStep =>
            LET n == Len(categoryStore)
                held == {i \in 1..n : categoryStore[i].name = ResolvedName}
                pushed == postModels'[Len(postModels')]
            IN  IF held # {}
                THEN /\ Len(categoryStore') = n
                     /\ \A i \in held :
                           /\ pushed.categoryId = categoryStore[i]._id
                           /\ categoryStore'[i] =
                                 [categoryStore[i] EXCEPT !.count = @ + 1]
                     /\ \A i \in (1..n) \ held : categoryStore'[i] = categoryStore[i]
                ELSE /\ Len(categoryStore') = n + 1
                     /\ categoryStore'[n + 1].name = ResolvedName
                     /\ pushed.categoryId = categoryStore'[n + 1]._id
                     /\ \A i \in 1..n : categoryStore'[i] = categoryStore[i]
       ]_vars

\* C10 witness: the call has finished after creating a second category and
\* resolving it again: both posts carry its _id and its count is one.
C10_Witness ==
    /\ postPc = "done"
    /\ Len(postStore) = 2
    /\ Len(categoryStore) = 2
    /\ categoryStore[2].count = 1
    /\ \A k \in 1..2 : postStore[k].categoryId = categoryStore[2]._id

----------------------------------------------------------------------------
(* markdownBuilder, lines 184-213.  A metadata object is a function from   *)
(* its field names to values.                                              *)

ReservedKeys == {"created", "modified", "title"}
ExtraKeySet == {"slug", "date", "updated"}
ExtraValueSet == {StrV(3), DateV(2), Undefined}
BodyChars == {" ", "x"}

\* { ...a, ...b }: the fields of b override those of a
Spread(a, b) ==
    [k \in DOMAIN a \cup DOMAIN b |-> IF k \in DOMAIN b THEN b[k] ELSE a[k]]

\* lodash omit(object, keys)
omit(object, keys) == [k \in DOMAIN object \ keys |-> object[k]]

MetaSet ==
    {Spread(r, e) :
        r \in [created : {DateV(0), DateV(1)}, modified : {DateV(0), DateV(1)},
               title : {StrV(1), StrV(2)}],
        e \in UNION {[E -> ExtraValueSet] : E \in SUBSET ExtraKeySet}}

\* String.prototype.trim over the modelled characters
RECURSIVE TrimStart(_)
TrimStart(s) ==
    IF s # <<>> /\ Head(s) = " " THEN TrimStart(Tail(s)) ELSE s
RECURSIVE TrimEnd(_)
TrimEnd(s) ==
    IF s # <<>> /\ s[Len(s)] = " " THEN TrimEnd(SubSeq(s, 1, Len(s) - 1)) ELSE s
Trim(s) == TrimEnd(TrimStart(s))

\* lines 196-201: { date: created, updated: modified, title, ...omit(meta, ...) }
Header(meta) ==
    Spread([date |-> meta.created, updated |-> meta.modified, title |-> meta.title],
           omit(meta, ReservedKeys))

\* the order in which the header's keys are written
KeyOrder == <<"date", "updated", "title", "slug">>

\* js-yaml dump(header, { skipInvalid: true }), line 202: one line per field
\* in key order, a Date as a timestamp scalar, a string as a string scalar,
\* an undefined value skipped
DumpLine(header, k) ==
    [key |-> k,
     tag |-> IF header[k].kind = "date" THEN "timestamp" ELSE "str",
     scalar |-> header[k].v]
RECURSIVE DumpFrom(_, _)
DumpFrom(header, i) ==
    IF i > Len(KeyOrder) THEN <<>>
    ELSE (IF KeyOrder[i] \in DOMAIN header /\ header[KeyOrder[i]] # Undefined
          THEN <<DumpLine(header, KeyOrder[i])>> ELSE <<>>)
         \o DumpFrom(header, i + 1)
dump(header) == DumpFrom(header, 1)

\* the text markdownBuilder returns, by its parts: the YAML block between the
\* --- lines, the `# title` heading and the trimmed body; `header` is the
\* local object the YAML block was dumped from
markdownBuilder(prop, includeYAMLHeader, showHeader) ==
    [hasYaml |-> includeYAMLHeader,
     header |-> IF includeYAMLHeader THEN Header(prop.meta) ELSE <<>>,
     yaml |-> IF includeYAMLHeader THEN dump(Header(prop.meta)) ELSE <<>>,
     heading |-> IF showHeader THEN <<prop.meta.title>> ELSE <<>>,
     body |-> Trim(prop.text)]

\* reading the YAML block back into a header object
LoadHeader(yaml) ==
    [k \in {yaml[i].key : i \in DOMAIN yaml} |->
        LET line == yaml[CHOOSE i \in DOMAIN yaml : yaml[i].key = k]
        IN  IF line.tag = "timestamp" THEN DateV(line.scalar) ELSE StrV(line.scalar)]

\* obj[k], undefined for a field the object lacks
Get(obj, k) == IF k \in DOMAIN obj THEN obj[k] ELSE Undefined

\* ingest normalisation of a header: created and modified by genDate, the
\* title and every other field passed through
IngestHeader(header, t1, t2) ==
    LET item == [hasMeta |-> TRUE,
                 meta |-> [date |-> Get(header, "date"),
                           updated |-> Get(header, "updated")]]
    IN  Spread(omit(header, {"date", "updated"}),
               [created |-> genDate(item, t1, t2).created,
                modified |-> genDate(item, t1, t2).modified])

BuilderInit ==
    /\ property \in [meta : MetaSet, text : SeqsOf(BodyChars, 0, 2)]
    /\ built = NoText
    /\ ingested = <<>>
    /\ builderPc = "input"
    /\ now \in 0..MaxClock
    /\ ArchiveIdle
    /\ NotesIdle
    /\ PostsIdle
    /\ RenderIdle

MarkdownBuilder ==
    /\ builderPc = "input"
    /\ \E includeYAMLHeader \in BOOLEAN, showHeader \in BOOLEAN :
          built' = markdownBuilder(property, includeYAMLHeader, showHeader)
    /\ builderPc' = "built"
    /\ UNCHANGED <<property, ingested, now, archiveVars, noteVars, postVars, renderVars>>

Ingest ==
    /\ builderPc = "built"
    /\ built.hasYaml
    /\ \E r \in ClockReadings :
          /\ ingested' = IngestHeader(LoadHeader(built.yaml), r[1], r[2])
          /\ now' = r[2]
    /\ builderPc' = "ingested"
    /\ UNCHANGED <<property, built, archiveVars, noteVars, postVars, renderVars>>

BuilderNext == MarkdownBuilder \/ Ingest
SpecBuilder == BuilderInit /\ [][BuilderNext]_vars

\* C3: composing with the YAML header and normalising the header on ingest
\* recovers the metadata: the same created, modified and title, and every
\* additional field with its original value.
C3_RoundTrip ==
    builderPc = "ingested" =>
        \A k \in DOMAIN property.meta : Get(ingested, k) = property.meta[k]

\* C4: the header object that is serialised has date = meta.created,
\* updated = meta.modified, title = meta.title, no created or modified
\* field, and holds every other metadata field, fields named neither date
\* nor updated with their own value.
C4_HeaderFields ==
    (builderPc = "built" /\ built.hasYaml) =>
        LET meta == property.meta
            header == built.header
            others == DOMAIN meta \ ReservedKeys
        IN  /\ header["date"] = meta["created"]
            /\ header["updated"] = meta["modified"]
            /\ header["title"] = meta["title"]
            /\ others \subseteq DOMAIN header
            /\ DOMAIN header \cap {"created", "modified"} = {}
            /\ \A k \in others \ {"date", "updated"} : header[k] = meta[k]

----------------------------------------------------------------------------
(* render, lines 228-268.  A syntax tree node is                           *)
(*   [type, value, url, alt, title, children]                              *)
(* where alt and title are <<>> when absent and <<text>> when present; an  *)
(* element tree node is [type, tagName, properties, children, value].      *)

UrlChars == {"a", " ", "%"}
HexDigits == {"a"}
AltChars == {"!", "U+00A1", "<", ">", "'", "\"", "a"}
Markers == {"!", "U+00A1"}

MdText(v) ==
    [type |-> "text", value |-> v, url |-> <<>>, alt |-> <<>>, title |-> <<>>,
     children |-> <<>>]
MdImage(url, alt, title) ==
    [type |-> "image", value |-> <<>>, url |-> url, alt |-> alt, title |-> title,
     children |-> <<>>]
MdParent(type, children) ==
    [type |-> type, value |-> <<>>, url |-> <<>>, alt |-> <<>>, title |-> <<>>,
     children |-> children]

Element(tagName, properties, children) ==
    [type |-> "element", tagName |-> tagName, properties |-> properties,
     children |-> children, value |-> <<>>]
HText(v) ==
    [type |-> "text", tagName |-> "", properties |-> <<>>, children |-> <<>>,
     value |-> v]
Raw(v) ==
    [type |-> "raw", tagName |-> "", properties |-> <<>>, children |-> <<>>,
     value |-> v]

\* mutation: the double quote is left as it is
escapeHTMLTagNoQuote(s) ==
    ReplaceAll(ReplaceAll(ReplaceAll(s,
        "<", <<"&", "l", "t", ";">>),
        ">", <<"&", "g", "t", ";">>),
        "'", <<"&", "#", "3", "9", ";">>)

\* escapeHTMLTag, lines 270-281: four replacements, one after the other
escapeHTMLTag(s) ==
    ReplaceAll(ReplaceAll(ReplaceAll(ReplaceAll(s,
        "<", <<"&", "l", "t", ";">>),
        ">", <<"&", "g", "t", ";">>),
        "'", <<"&", "#", "3", "9", ";">>),
        "\"", <<"&", "#", "3", "4", ";">>)

\* mdurl/encode (imported as normalize, line 6): a valid %XX escape is kept,
\* a character of the safe set is kept, anything else is percent-encoded
RECURSIVE normalize(_)
normalize(s) ==
    IF s = <<>> THEN <<>>
    ELSE IF /\ Head(s) = "%"
            /\ Len(s) >= 3
            /\ s[2] \in HexDigits
            /\ s[3] \in HexDigits
    THEN SubSeq(s, 1, 3) \o normalize(SubSeq(s, 4, Len(s)))
    ELSE (CASE Head(s) = " " -> <<"%", "2", "0">>
            [] Head(s) = "%" -> <<"%", "2", "5">>
            [] OTHER -> <<Head(s)>>)
         \o normalize(Tail(s))

FigcaptionOpen == "<figcaption style=\"text-align: center; margin: 1em auto;\">"
FigcaptionClose == "</figcaption>"

\* line 241: the alt text without its leading marker, '' when it has none
\* ("U+00A1" stands for the inverted exclamation mark)
CaptionOf(alt) ==
    IF alt # <<>> /\ alt[1] # <<>> /\ Head(alt[1]) \in Markers
    THEN Tail(alt[1]) ELSE <<>>

\* handlers.image, lines 236-257
ImageHandler(n) ==
    LET src == n.url
        alt == CaptionOf(n.alt)
    IN  IF alt = <<>>
        THEN Element("img", [src |-> src], <<>>)
        ELSE Element("figure", <<>>,
                <<Element("img", [src |-> normalize(src)], <<>>),
                  Raw(<<FigcaptionOpen>> \o escapeHTMLTag(alt) \o <<FigcaptionClose>>)>>)

\* handlers.spoiler, lines 258-263: h(node, 'del', props) with no children
\* argument builds an element without children
SpoilerHandler(n) ==
    Element("del", [class |-> "spoiler", style |-> "filter: invert(25%);"], <<>>)

\* the lowering remark-html runs with the two handlers installed: image and
\* spoiler nodes go to the handlers, the other kinds to the default ones
RECURSIVE Lower(_)
Lower(n) ==
    CASE n.type = "image" -> ImageHandler(n)
      [] n.type = "spoiler" -> SpoilerHandler(n)
      [] n.type = "text" -> HText(n.value)
      [] n.type = "emphasis" ->
            Element("em", <<>>, [i \in DOMAIN n.children |-> Lower(n.children[i])])
      [] OTHER ->
            Element("p", <<>>, [i \in DOMAIN n.children |-> Lower(n.children[i])])

UrlSet == SeqsOf(UrlChars, 1, MaxUrlLen)
AltSet == {<<>>} \cup {<<a>> : a \in SeqsOf(AltChars, 1, MaxAltLen)}
TitleSet == {<<>>, <<"t">>}
ImageSet == {MdImage(u, a, t) : u \in UrlSet, a \in AltSet, t \in TitleSet}

\* inline content nested up to depth d
LeafSet ==
    {MdText("x"),
     MdImage(<<"a", " ">>, <<<<"a">>>>, <<>>),
     MdImage(<<"a", " ">>, <<<<"!", "<">>>>, <<>>)}
RECURSIVE TreeSet(_)
TreeSet(d) ==
    IF d = 0 THEN LeafSet
    ELSE LeafSet \cup
         {MdParent(t, c) : t \in {"emphasis", "spoiler", "paragraph"},
                           c \in SeqsOf(TreeSet(d - 1), 1, 2)}

RenderInit ==
    /\ node \in ImageSet \cup TreeSet(MaxDepth)
    /\ html = <<>>
    /\ renderPc = "parsed"
    /\ now = 0
    /\ ArchiveIdle
    /\ NotesIdle
    /\ PostsIdle
    /\ BuilderIdle

Render ==
    /\ renderPc = "parsed"
    /\ html' = Lower(node)
    /\ renderPc' = "rendered"
    /\ UNCHANGED <<node, now, archiveVars, noteVars, postVars, builderVars>>

RenderNext == Render
SpecRender == RenderInit /\ [][RenderNext]_vars

\* C6: a spoiler node is lowered to a del element of class "spoiler" and
\* style "filter: invert(25%);" whose children are the lowering of the
\* node's children.
C6_SpoilerKeepsChildren ==
    (renderPc = "rendered" /\ node.type = "spoiler") =>
        /\ html.type = "element"
        /\ html.tagName = "del"
        /\ html.properties = [class |-> "spoiler", style |-> "filter: invert(25%);"]
        /\ html.children = [i \in DOMAIN node.children |-> Lower(node.children[i])]

\* the entity each of the four characters is written as
Entity(c) ==
    CASE c = "<" -> <<"&", "l", "t", ";">>
      [] c = ">" -> <<"&", "g", "t", ";">>
      [] c = "'" -> <<"&", "#", "3", "9", ";">>
      [] c = "\"" -> <<"&", "#", "3", "4", ";">>
      [] OTHER -> <<c>>
RECURSIVE EntityText(_)
EntityText(s) ==
    IF s = <<>> THEN <<>> ELSE Entity(Head(s)) \o EntityText(Tail(s))

\* the image node carries a caption: its alt is a marker and then text
Captioned(n) ==
    /\ n.type = "image"
    /\ n.alt # <<>>
    /\ Len(n.alt[1]) >= 2
    /\ n.alt[1][1] \in Markers

\* C7: an image whose alt is the marker followed by non-empty text c is
\* lowered to a figure holding the img element and then a figcaption whose
\* text is c with each of < > ' " written as its entity, so that none of
\* the four characters is left in the caption.
C7_CaptionEscaped ==
    (renderPc = "rendered" /\ Captioned(node)) =>
        /\ html.type = "element"
        /\ html.tagName = "figure"
        /\ Len(html.children) = 2
        /\ html.children[1].type = "element"
        /\ html.children[1].tagName = "img"
        /\ html.children[2].type = "raw"
        /\ LET raw == html.children[2].value
               caption == SubSeq(raw, 2, Len(raw) - 1)
           IN  /\ Len(raw) >= 3
               /\ raw[1] = FigcaptionOpen
               /\ raw[Len(raw)] = FigcaptionClose
               /\ caption = EntityText(Tail(node.alt[1]))
               /\ \A i \in DOMAIN caption : caption[i] \notin {"<", ">", "'", "\""}

\* C7 witness: a captioned image whose caption holds a double quote has
\* been rendered.
C7_Witness ==
    /\ renderPc = "rendered"
    /\ Captioned(node)
    /\ \E i \in 2..Len(node.alt[1]) : node.alt[1][i] = "\""

\* the lowering of the base grammar: the image handler of the library writes
\* the normalised url, and the alt and the title the node carries
BaseImage(n) ==
    Element("img",
        Spread(Spread([src |-> normalize(n.url)],
                      IF n.alt # <<>> THEN [alt |-> n.alt[1]] ELSE <<>>),
               IF n.title # <<>> THEN [title |-> n.title[1]] ELSE <<>>),
        <<>>)
RECURSIVE BaseLower(_)
BaseLower(n) ==
    CASE n.type = "image" -> BaseImage(n)
      [] n.type = "text" -> HText(n.value)
      [] n.type = "emphasis" ->
            Element("em", <<>>, [i \in DOMAIN n.children |-> BaseLower(n.children[i])])
      [] OTHER ->
            Element("p", <<>>, [i \in DOMAIN n.children |-> BaseLower(n.children[i])])

\* no spoiler and no image whose alt starts with a caption marker
RECURSIVE NoExtendedSyntax(_)
NoExtendedSyntax(n) ==
    /\ n.type # "spoiler"
    /\ n.type = "image" =>
          (n.alt = <<>> \/ n.alt[1] = <<>> \/ Head(n.alt[1]) \notin Markers)
    /\ \A i \in DOMAIN n.children : NoExtendedSyntax(n.children[i])

\* C8: for input without extended syntax the output of render is the
\* lowering of the base grammar.
C8_ExtensionsAdditive ==
    (renderPc = "rendered" /\ NoExtendedSyntax(node)) => html = BaseLower(node)

\* C9: the src of the img element emitted for an image node, captioned or
\* not, is the normalised url of the node.
C9_SrcNormalized ==
    (renderPc = "rendered" /\ node.type = "image") =>
        LET img == IF html.tagName = "img" THEN html ELSE html.children[1]
        IN  img.properties["src"] = normalize(node.url)

----------------------------------------------------------------------------
(* generateArchive, lines 164-182 *)

NameChars == {"/", "-"}
NameSet == SeqsOf(NameChars, 1, MaxNameLen)
TextSet == {"text1", "text2"}
SlugSet == {<<"/">>, <<"-">>}
DocumentSet == [meta : [title : NameSet, slug : SlugSet], text : TextSet]

\* (options.slug ? document.meta.slug : document.meta.title)
NamingField(document, opts) ==
    IF opts.slug THEN document.meta.slug ELSE document.meta.title

\* mutation: replace('/', '-') without the g flag, first occurrence only
RECURSIVE ReplaceFirst(_, _, _)
ReplaceFirst(s, c, r) ==
    IF s = <<>> THEN <<>>
    ELSE IF Head(s) = c THEN r \o Tail(s)
    ELSE <<Head(s)>> \o ReplaceFirst(Tail(s), c, r)

EntryNameFirstOnly(document, opts) ==
    ReplaceFirst(NamingField(document, opts) \o <<".", "m", "d">>, "/", <<"-">>)

\* .concat('.md').replace(/\//g, '-')
EntryName(document, opts) ==
    ReplaceAll(NamingField(document, opts) \o <<".", "m", "d">>, "/", <<"-">>)

\* mutation: the entry is added without replacing one of the same name
ZipFileAppend(files, name, data) ==
    files \cup {[name |-> name, content |-> data]}

\* JSZip#file(name, data): files[name] = data replaces an entry of that name
ZipFile(files, name, data) ==
    {e \in files : e.name # name} \cup {[name |-> name, content |-> data]}

ArchiveInit ==
    /\ documents \in SeqsOf(DocumentSet, 0, MaxDocs)
    /\ options \in [slug : BOOLEAN]
    /\ zip = {}
    /\ di = 0
    /\ now = 0
    /\ NotesIdle
    /\ PostsIdle
    /\ BuilderIdle
    /\ RenderIdle

\* one iteration of `for (const document of documents)`
GenerateArchiveStep ==
    /\ di < Len(documents)
    /\ di' = di + 1
    /\ zip' = ZipFile(zip, EntryName(documents[di + 1], options),
                      documents[di + 1].text)
    /\ UNCHANGED <<documents, options, now, noteVars, postVars, builderVars, renderVars>>

ArchiveNext == GenerateArchiveStep
SpecArchive == ArchiveInit /\ [][ArchiveNext]_vars

\* the name the packager contract prescribes for the k-th document, character
\* by character: the naming field, "/" replaced by "-", then ".md"
PrescribedName(k) ==
    LET f == IF options.slug THEN documents[k].meta.slug
                             ELSE documents[k].meta.title
        ext == <<".", "m", "d">>
    IN  [i \in 1..(Len(f) + 3) |->
            IF i <= Len(f) THEN (IF f[i] = "/" THEN "-" ELSE f[i])
            ELSE ext[i - Len(f)]]

\* C1: after any number of loop iterations the archive holds at most one
\* entry per sanitized name, every consumed document's sanitized name has an
\* entry, and the entry's content is the text of the last consumed document
\* with that sanitized name.
C1_UniqueNamesLastWins ==
    /\ \A e1, e2 \in zip : e1.name = e2.name => e1 = e2
    /\ \A k \in 1..di : \E e \in zip : e.name = PrescribedName(k)
    /\ \A e \in zip : \E k \in 1..di :
          /\ PrescribedName(k) = e.name
          /\ e.content = documents[k].text
          /\ \A j \in (k + 1)..di : PrescribedName(j) # e.name

\* C1 witness: the loop has finished over two documents whose naming fields
\* differ, whose sanitized names coincide and whose texts differ.
C1_Witness ==
    /\ di = Len(documents)
    /\ \E i, j \in 1..di :
          /\ i < j
          /\ NamingField(documents[i], options) # NamingField(documents[j], options)
          /\ PrescribedName(i) = PrescribedName(j)
          /\ documents[i].text # documents[j].text
    /\ Cardinality(zip) = 1

\* C2: every entry name is free of the path separator "/", and every
\* consumed document has an entry whose name is its naming field with each
\* "/" replaced by "-" and ".md" appended.
C2_EntryNameSanitized ==
    /\ \A e \in zip : \A i \in 1..Len(e.name) : e.name[i] # "/"
    /\ \A k \in 1..di : \E e \in zip :
          LET f == NamingField(documents[k], options)
          IN  /\ Len(e.name) = Len(f) + 3
              /\ \A i \in 1..Len(f) :
                    e.name[i] = IF f[i] = "/" THEN "-" ELSE f[i]
              /\ SubSeq(e.name, Len(f) + 1, Len(f) + 3) = <<".", "m", "d">>

\* C2 witness: the loop has finished and the naming field of a consumed
\* document held two path separators.
C2_Witness ==
    /\ di = Len(documents)
    /\ \E k \in 1..di :
          LET f == NamingField(documents[k], options)
          IN  \E i, j \in 1..Len(f) : i # j /\ f[i] = "/" /\ f[j] = "/"

====
